---- MODULE Spec2Model ----
(***************************************************************************)
(* Model of src/src/console.ts: the ConsoleLogger facade over a winston    *)
(* logger.  JavaScript values are tagged records, strings are TLA+ strings *)
(* and the winston calls the class makes (createLogger, child, the level   *)
(* methods, the format pipeline) are modelled at the lines that make them. *)
(***************************************************************************)
EXTENDS Integers, Sequences, FiniteSets, TLC

VARIABLES loggers, made, opts, console, call

vars == <<loggers, made, opts, console, call>>

(***************************************************************************)
(* JavaScript values                                                       *)
(***************************************************************************)
Undefined == [t |-> "undefined"]
Null == [t |-> "null"]
Str(s) == [t |-> "string", s |-> s]
Num(n) == [t |-> "number", n |-> n]
Bool(b) == [t |-> "boolean", b |-> b]
Arr(a) == [t |-> "array", a |-> a]
Obj(kv) == [t |-> "object", kv |-> kv]
Err(stack) == [t |-> "error", stack |-> stack]

\* m == null
IsNullish(v) == v.t \in {"undefined", "null"}

\* !v is false
Truthy(v) ==
    CASE v.t \in {"undefined", "null"} -> FALSE
      [] v.t = "string" -> v.s # ""
      [] v.t = "number" -> v.n # 0
      [] v.t = "boolean" -> v.b
      [] OTHER -> TRUE

\* typeof v
TypeOf(v) ==
    CASE v.t \in {"null", "array", "object", "error"} -> "object"
      [] OTHER -> v.t

Digit(d) == SubSeq("0123456789", d + 1, d + 1)

RECURSIVE NumToString(_)
NumToString(n) == IF n < 10 THEN Digit(n) ELSE NumToString(n \div 10) \o Digit(n % 10)

\* The text of a string inside its JSON quotes.
RECURSIVE JSONEscape(_)
JSONEscape(s) ==
    IF s = "" THEN ""
    ELSE LET c == SubSeq(s, 1, 1)
         IN (CASE c = "\"" -> "\\\""
               [] c = "\\" -> "\\\\"
               [] c = "\n" -> "\\n"
               [] OTHER -> c) \o JSONEscape(SubSeq(s, 2, Len(s)))

\* JSON.stringify, for the values a metadata can hold here: strings are
\* quoted and escaped, undefined array items print null, object members
\* that are undefined are dropped, an Error has no enumerable member.
RECURSIVE JSONStringify(_), JSONElements(_), JSONMembers(_, _)
JSONStringify(v) ==
    CASE v.t = "string" -> "\"" \o JSONEscape(v.s) \o "\""
      [] v.t = "number" -> NumToString(v.n)
      [] v.t = "boolean" -> IF v.b THEN "true" ELSE "false"
      [] v.t = "null" -> "null"
      [] v.t = "array" -> "[" \o JSONElements(v.a) \o "]"
      [] v.t = "object" -> "{" \o JSONMembers(v.kv, TRUE) \o "}"
      [] v.t = "error" -> "{}"
      [] OTHER -> "null"

JSONElements(a) ==
    IF a = <<>> THEN ""
    ELSE JSONStringify(Head(a)) \o (IF Len(a) > 1 THEN "," ELSE "") \o JSONElements(Tail(a))

JSONMembers(kv, first) ==
    IF kv = <<>> THEN ""
    ELSE IF Head(kv)[2].t = "undefined" THEN JSONMembers(Tail(kv), first)
    ELSE (IF first THEN "" ELSE ",") \o "\"" \o Head(kv)[1] \o "\":"
             \o JSONStringify(Head(kv)[2]) \o JSONMembers(Tail(kv), FALSE)

\* String.prototype.padStart(n, " ")
RECURSIVE padStart(_, _)
padStart(s, n) == IF Len(s) >= n THEN s ELSE padStart(" " \o s, n)

\* String.prototype.substr(0, n)
substr0(s, n) == IF Len(s) <= n THEN s ELSE SubSeq(s, 1, n)

(***************************************************************************)
(* winston, as console.ts uses it                                         *)
(***************************************************************************)
SCOPE_MAX_LEN == 18

LEVEL_PAD == 15

Levels == {"debug", "info", "warn", "error"}

\* winston's npm levels: a transport writes a record whose rank is at most
\* the rank of the logger's level.
LevelRank(l) ==
    CASE l = "error" -> 0
      [] l = "warn" -> 1
      [] l = "info" -> 2
      [] l = "debug" -> 5

\* The escape character that opens a terminal colour sequence (U+001B) has
\* no TLA+ string escape: \f stands for it, one character wide as it is.
ESC == "\f"

\* format.colorize: red, yellow, green and blue for the four levels, each
\* text wrapped as ESC[3Xm text ESC[39m.
ColorCode(l) ==
    CASE l = "error" -> "31"
      [] l = "warn" -> "33"
      [] l = "info" -> "32"
      [] l = "debug" -> "34"

Colorize(l, text) == ESC \o "[" \o ColorCode(l) \o "m" \o text \o ESC \o "[39m"

\* winston's level methods build the record from the side fields (null
\* gives none), the level and the message.
MakeInfo(level, message, meta) ==
    [level |-> level,
     message |-> message,
     metadata |-> IF meta # Null /\ "metadata" \in DOMAIN meta THEN meta.metadata ELSE Undefined,
     stackTrace |-> IF meta # Null /\ "stackTrace" \in DOMAIN meta THEN meta.stackTrace ELSE Undefined,
     scope |-> Undefined,
     timestamp |-> Undefined]

(***************************************************************************)
(* ConsoleLogger                                                           *)
(***************************************************************************)
\* stringifyMetadata printing arrays and objects without looking at their size.
stringifyMetadata_PrintsEmpty(info) ==
    LET m == info.metadata IN
    IF IsNullish(m) THEN ""
    ELSE CASE TypeOf(m) = "string" -> " " \o m.s
           [] TypeOf(m) = "object" -> " " \o JSONStringify(m)
           [] OTHER -> ""

stringifyMetadata(info) ==
    LET m == info.metadata IN
    IF IsNullish(m) THEN ""
    ELSE CASE TypeOf(m) = "string" -> " " \o m.s
           [] TypeOf(m) = "object" ->
                IF m.t = "array"
                THEN (IF Len(m.a) <= 0 THEN "" ELSE " " \o JSONStringify(m))
                ELSE IF m.t = "object" /\ Len(m.kv) > 0 THEN " " \o JSONStringify(m)
                ELSE ""
           [] OTHER -> ""

MetadataSuffix(info) ==
    LET metadata == stringifyMetadata(info) IN
    IF metadata # "" THEN "\n  > [metadata]" \o metadata ELSE metadata

StackTraceSuffix(info) ==
    IF Truthy(info.stackTrace) THEN "\n  > [stackTrace] " \o info.stackTrace.s ELSE ""

\* The level label left as it came.
LevelLabel_Unpadded(info) == info.level

LevelLabel(info) == padStart(info.level, LEVEL_PAD)

\* The scope column padded but never cut.
ScopeColumn_NeverCut(info, name) ==
    LET scope == IF Truthy(info.scope) THEN info.scope.s ELSE name IN
    padStart(scope, SCOPE_MAX_LEN)

ScopeColumn(info, name) ==
    LET scope == IF Truthy(info.scope) THEN info.scope.s ELSE name IN
    IF Len(scope) > SCOPE_MAX_LEN THEN substr0(scope, SCOPE_MAX_LEN)
    ELSE padStart(scope, SCOPE_MAX_LEN)

printf(info, name) ==
    "[" \o info.timestamp.s \o "] " \o LevelLabel(info) \o ": " \o ScopeColumn(info, name)
        \o " | " \o info.message \o MetadataSuffix(info) \o StackTraceSuffix(info)

\* format.combine(format.timestamp({}), format.colorize({all: true}), format.printf(...))
handleConsoleFormat(info, name, now) ==
    LET stamped == [info EXCEPT !.timestamp = Str(now)]
        colored == [stamped EXCEPT !.level = Colorize(info.level, info.level),
                                   !.message = Colorize(info.level, info.message)]
    IN printf(colored, name)

\* format.combine(format.timestamp(), format.json()): the record's members
\* in the order they were set, the undefined ones dropped.
jsonFormat(info, now) ==
    JSONStringify(Obj(<< <<"scope", info.scope>>,
                         <<"stackTrace", info.stackTrace>>,
                         <<"metadata", info.metadata>>,
                         <<"level", Str(info.level)>>,
                         <<"message", Str(info.message)>>,
                         <<"timestamp", Str(now)>> >>))

\* winston.createLogger({level, format, transports: [new Console()]})
createLogger(level, logFmt, transport) ==
    [kind |-> "logger", level |-> level, format |-> logFmt, transport |-> transport]

\* winston's logger.child({scope: scope}): writes through its parent, its
\* own members set first and the record's over them.
child(logger, scope) == [kind |-> "child", proto |-> logger, scope |-> scope]

RECURSIVE RootOf(_)
RootOf(logger) == IF logger.kind = "child" THEN RootOf(logger.proto) ELSE logger

RECURSIVE WriteInfo(_, _)
WriteInfo(logger, info) ==
    IF logger.kind = "child"
    THEN WriteInfo(logger.proto,
                   IF info.scope = Undefined THEN [info EXCEPT !.scope = Str(logger.scope)]
                   ELSE info)
    ELSE info

\* The switch without its "warn" case.
SanitizeLogLevel_NoWarn(logLevel) ==
    IF logLevel \in {Str("debug"), Str("error"), Str("info")}
    THEN logLevel.s
    ELSE "info"

\* The switch of the constructor.
SanitizeLogLevel(logLevel) ==
    IF logLevel \in {Str("debug"), Str("error"), Str("info"), Str("warn")}
    THEN logLevel.s
    ELSE "info"

LogFmt(options) ==
    IF options.format = Str("console")
    THEN [mode |-> "console", name |-> options.name]
    ELSE [mode |-> "json"]

\* new ConsoleLogger(options); transport is the Console transport a new
\* winston logger gets.
ConsoleLogger(options, transport) ==
    [name |-> options.name,
     debugMode |-> (options.debugMode = Bool(TRUE)),
     logger |-> IF options._child # Undefined THEN options._child
                ELSE createLogger(SanitizeLogLevel(options.logLevel), LogFmt(options), transport)]

\* createChild handing over its own name as the scope.
createChild_NameAsScope(self, scope) ==
    ConsoleLogger([name |-> self.name, logLevel |-> Undefined, format |-> Undefined,
                   debugMode |-> Undefined, _child |-> child(self.logger, self.name)], 0)

createChild(self, scope) ==
    ConsoleLogger([name |-> self.name, logLevel |-> Undefined, format |-> Undefined,
                   debugMode |-> Undefined, _child |-> child(self.logger, scope)], 0)

Options(error, metadata) == [t |-> "options", error |-> error, metadata |-> metadata]

\* getMetadata wrapping only a metadata that has content.
getMetadata_NeedsContent(options) ==
    IF ~Truthy(options) \/ ~Truthy(options.metadata) \/ options.metadata \in {Obj(<<>>), Arr(<<>>)}
    THEN Null
    ELSE [metadata |-> options.metadata]

getMetadata(options) ==
    IF ~Truthy(options) \/ ~Truthy(options.metadata) THEN Null
    ELSE [metadata |-> options.metadata]

\* The stack of an Error made inside traceError when called from site.
NewStack(site) == "Error\n    at " \o site

\* traceError without its debugMode guard.
traceError_AlwaysTraces(self, options, site) ==
    LET o1 == IF ~Truthy(options) THEN Options(Undefined, Undefined) ELSE options
        o2 == IF ~Truthy(o1.metadata) THEN [o1 EXCEPT !.metadata = Obj(<<>>)] ELSE o1
        o3 == IF ~Truthy(o2.error) THEN [o2 EXCEPT !.error = Err(Str(NewStack(site)))] ELSE o2
    IN [ret |-> [stackTrace |-> o3.error.stack, metadata |-> o3.metadata],
        options |-> IF ~Truthy(options) THEN options ELSE o3]

\* traceError tracing a new Error whatever error it was given.
traceError_FreshError(self, options, site) ==
    IF ~self.debugMode THEN [ret |-> Null, options |-> options]
    ELSE LET o1 == IF ~Truthy(options) THEN Options(Undefined, Undefined) ELSE options
             o2 == IF ~Truthy(o1.metadata) THEN [o1 EXCEPT !.metadata = Obj(<<>>)] ELSE o1
             o3 == [o2 EXCEPT !.error = Err(Str(NewStack(site)))]
         IN [ret |-> [stackTrace |-> o3.error.stack, metadata |-> o3.metadata],
             options |-> IF ~Truthy(options) THEN options ELSE o3]

\* traceError: ret is what it returns, options the object it was given as
\* the method leaves it.
traceError(self, options, site) ==
    IF ~self.debugMode THEN [ret |-> Null, options |-> options]
    ELSE LET o1 == IF ~Truthy(options) THEN Options(Undefined, Undefined) ELSE options
             o2 == IF ~Truthy(o1.metadata) THEN [o1 EXCEPT !.metadata = Obj(<<>>)] ELSE o1
             o3 == IF ~Truthy(o2.error) THEN [o2 EXCEPT !.error = Err(Str(NewStack(site)))] ELSE o2
         IN [ret |-> [stackTrace |-> o3.error.stack, metadata |-> o3.metadata],
             options |-> IF ~Truthy(options) THEN options ELSE o3]

\* What the Console transport of the logger prints for info: nothing when
\* the logger's level does not reach the record's.
Transport(logger, info, now) ==
    LET root == RootOf(logger)
        sent == WriteInfo(logger, info)
    IN IF LevelRank(root.level) < LevelRank(info.level) THEN <<>>
       ELSE << [transport |-> root.transport,
                line |-> IF root.format.mode = "console"
                         THEN handleConsoleFormat(sent, root.format.name, now)
                         ELSE jsonFormat(sent, now)] >>

(***************************************************************************)
(* The program: one root logger, the loggers derived from it, the options  *)
(* object its caller holds, and what the last call printed.                *)
(*   loggers  the ConsoleLogger instances, the root first                  *)
(*   made     for each instance, the createChild call that made it         *)
(*   opts     the caller's options object (Undefined before it makes one)  *)
(*   console  the lines the Console transport printed in the last step     *)
(*   call     the last operation: its receiver, arguments and results      *)
(***************************************************************************)
MaxLoggers == 2

Names == {"svc", "a-very-long-service-name"}

LogLevelInputs ==
    {Undefined, Str("debug"), Str("info"), Str("warn"), Str("error"), Str("verbose"), Str("INFO")}

FormatInputs == {Undefined, Str("console"), Str("json")}

DebugModeInputs == {Undefined, Bool(TRUE), Bool(FALSE)}

CtorOptions ==
    [name : Names, logLevel : LogLevelInputs, format : FormatInputs,
     debugMode : DebugModeInputs, _child : {Undefined}]

CtorOption(name, logLevel, format, debugMode) ==
    [name |-> name, logLevel |-> logLevel, format |-> format, debugMode |-> debugMode,
     _child |-> Undefined]

\* The root loggers the whole program is run from.
ProgramCtorOptions ==
    {CtorOption("svc", Str("debug"), Str("console"), Bool(TRUE)),
     CtorOption("svc", Undefined, Str("console"), Undefined),
     CtorOption("svc", Str("verbose"), Undefined, Bool(TRUE)),
     CtorOption("a-very-long-service-name", Str("warn"), Str("console"), Bool(FALSE))}

\* The root loggers the format is run from: every record is printed.
FormatCtorOptions == {CtorOption(name, Str("debug"), Str("console"), Undefined) : name \in Names}

Scopes == {"", "worker", "a-scope-of-twenty-five-ch"}

Messages == {"boom"}

Sites == {"main", "worker.js:7"}

Clock == {"2021-03-04T05:06:07.000Z"}

ErrorInputs == {Undefined, Err(Str("Error: disk full\n    at read"))}

MetadataInputs ==
    {Undefined, Null, Str(""), Num(0), Str("hello"), Obj(<<>>), Arr(<<>>),
     Obj(<< <<"code", Num(5)>> >>)}

\* The records winston can hand to the format.
InfoScopes ==
    {Undefined, Str(""), Str("abc"), Str("exactly-18-chars-x"), Str("nineteen-characters"),
     Str("a-scope-of-twenty-five-ch")}

InfoMetadatas ==
    MetadataInputs \cup {Arr(<<Num(1), Str("x")>>), Obj(<< <<"a", Num(1)>>, <<"b", Arr(<<>>)>> >>),
                         Num(12), Bool(TRUE)}

InfoStackTraces == {Undefined, Str(""), Str(NewStack("main"))}

InfoInputs ==
    [level : Levels, message : Messages, metadata : InfoMetadatas,
     stackTrace : InfoStackTraces, scope : InfoScopes, timestamp : {Undefined}]

Init ==
    /\ loggers = <<>>
    /\ made = <<>>
    /\ opts = Undefined
    /\ console = <<>>
    /\ call = [op |-> "none"]

\* new ConsoleLogger(options), for the root logger.
Construct(optionSet) ==
    \E options \in optionSet :
        /\ loggers = <<>>
        /\ loggers' = << ConsoleLogger(options, 1) >>
        /\ made' = << [parent |-> 0, scope |-> ""] >>
        /\ call' = [op |-> "new", options |-> options,
                    left |-> [options EXCEPT !.logLevel = Str(SanitizeLogLevel(options.logLevel))]]
        /\ console' = <<>>
        /\ UNCHANGED opts

\* The caller makes the options object it will pass.
NewOptions ==
    \E error \in ErrorInputs, metadata \in MetadataInputs :
        /\ loggers # <<>>
        /\ opts' = Options(error, metadata)
        /\ call' = [op |-> "options"]
        /\ console' = <<>>
        /\ UNCHANGED <<loggers, made>>

CreateChild ==
    \E i \in DOMAIN loggers, scope \in Scopes :
        /\ Len(loggers) < MaxLoggers
        /\ loggers' = Append(loggers, createChild(loggers[i], scope))
        /\ made' = Append(made, [parent |-> i, scope |-> scope])
        /\ call' = [op |-> "createChild", self |-> i, scope |-> scope]
        /\ console' = <<>>
        /\ UNCHANGED opts

\* debug, info and warn: this.logger.<level>(message, this.getMetadata(options))
LogWithMetadata(level) ==
    \E i \in DOMAIN loggers, message \in Messages, options \in {Undefined, opts}, now \in Clock :
        LET ret == getMetadata(options)
            info == MakeInfo(level, message, ret)
        IN /\ console' = Transport(loggers[i].logger, info, now)
           /\ call' = [op |-> level, self |-> i, message |-> message, options |-> options,
                       site |-> "", now |-> now, ret |-> ret,
                       info |-> WriteInfo(loggers[i].logger, info)]
           /\ UNCHANGED <<loggers, made, opts>>

Debug == LogWithMetadata("debug")

Info == LogWithMetadata("info")

Warn == LogWithMetadata("warn")

\* error: this.logger.error(message, this.traceError(options))
Error ==
    \E i \in DOMAIN loggers, message \in Messages, options \in {Undefined, opts},
       site \in Sites, now \in Clock :
        LET traced == traceError(loggers[i], options, site)
            info == MakeInfo("error", message, traced.ret)
        IN /\ console' = Transport(loggers[i].logger, info, now)
           /\ opts' = IF options = Undefined THEN opts ELSE traced.options
           /\ call' = [op |-> "error", self |-> i, message |-> message, options |-> options,
                       site |-> site, now |-> now, ret |-> traced.ret,
                       info |-> WriteInfo(loggers[i].logger, info)]
           /\ UNCHANGED <<loggers, made>>

\* winston runs the logger's format on the record it was handed and prints
\* the result.
Transform ==
    \E now \in Clock :
        /\ call.op = "input"
        /\ console' = Transport(loggers[1].logger, call.info, now)
        /\ call' = [call EXCEPT !.op = "transform", !.now = now]
        /\ UNCHANGED <<loggers, made, opts>>

Next ==
    \/ Construct(ProgramCtorOptions)
    \/ NewOptions
    \/ CreateChild
    \/ Debug
    \/ Info
    \/ Warn
    \/ Error

Spec == Init /\ [][Next]_vars

\* The constructor alone, over every kind of option.
NextConstruct == Construct(CtorOptions)

SpecConstruct == Init /\ [][NextConstruct]_vars

\* The console format alone, over every kind of record.
InitFormat ==
    \E options \in FormatCtorOptions, info \in InfoInputs :
        /\ loggers = << ConsoleLogger(options, 1) >>
        /\ made = << [parent |-> 0, scope |-> ""] >>
        /\ opts = Undefined
        /\ console = <<>>
        /\ call = [op |-> "input", self |-> 1, now |-> "", info |-> info]

NextFormat == Transform

SpecFormat == InitFormat /\ [][NextFormat]_vars

(***************************************************************************)
(* Reading a printed console line back:                                    *)
(*   [<timestamp>] <level label>: <scope column> | <message><suffixes>     *)
(***************************************************************************)
RECURSIVE Spaces(_)
Spaces(n) == IF n <= 0 THEN "" ELSE " " \o Spaces(n - 1)

\* The first index at or after from where sub starts in s, 0 when nowhere.
RECURSIVE Find(_, _, _)
Find(s, sub, from) ==
    IF from + Len(sub) - 1 > Len(s) THEN 0
    ELSE IF SubSeq(s, from, from + Len(sub) - 1) = sub THEN from
    ELSE Find(s, sub, from + 1)

\* s without its colour sequences (ESC ... m): what a terminal shows.
RECURSIVE VisibleText(_)
VisibleText(s) ==
    IF s = "" THEN ""
    ELSE IF SubSeq(s, 1, 1) = ESC
         THEN VisibleText(SubSeq(s, Find(s, "m", 1) + 1, Len(s)))
         ELSE SubSeq(s, 1, 1) \o VisibleText(SubSeq(s, 2, Len(s)))

LabelStart(now) == Len(now) + 4

LabelEnd(line, now) == Find(line, ": ", LabelStart(now)) - 1

LineLabel(line, now) == SubSeq(line, LabelStart(now), LabelEnd(line, now))

ScopeEnd(line, now) == Find(line, " | ", LabelEnd(line, now) + 3) - 1

LineScope(line, now) == SubSeq(line, LabelEnd(line, now) + 3, ScopeEnd(line, now))

\* What follows the (colorized) message.
LineSuffixes(line, now) ==
    SubSeq(line, Find(line, ESC \o "[39m", ScopeEnd(line, now) + 4) + 5, Len(line))

StartsWith(s, prefix) == Len(s) >= Len(prefix) /\ SubSeq(s, 1, Len(prefix)) = prefix

IsLogCall == call.op \in Levels

ConsoleMode == loggers # <<>> /\ RootOf(loggers[1].logger).format.mode = "console"

\* The scope column the rule of the format gives a scope.
PaddedOrTruncated(scope) ==
    IF Len(scope) > 18 THEN SubSeq(scope, 1, 18) ELSE Spaces(18 - Len(scope)) \o scope

(***************************************************************************)
(* C1: the constructor keeps a logLevel that is one of debug, info, warn,  *)
(* error and turns every other one, an absent one too, into info; the      *)
(* level of the logger is always one of the four.                          *)
(***************************************************************************)
C1_LevelSanitized ==
    call.op = "new" =>
        LET level == RootOf(loggers[1].logger).level
            given == call.options.logLevel
        IN /\ level \in Levels
           /\ given \in {Str(l) : l \in Levels} => level = given.s
           /\ given \notin {Str(l) : l \in Levels} => level = "info"

C1_Witness ==
    /\ call.op = "new"
    /\ call.options.logLevel = Str("verbose")
    /\ RootOf(loggers[1].logger).level = "info"

(***************************************************************************)
(* C2, as stated: getMetadata returns nothing when options or its metadata *)
(* is absent, and {metadata: X} for every X that is not null or undefined. *)
(***************************************************************************)
C2_WrapsEveryNonNullish ==
    call.op \in {"debug", "info", "warn"} =>
        /\ (call.options = Undefined \/ call.options.metadata = Undefined) => call.ret = Null
        /\ (call.options # Undefined /\ ~IsNullish(call.options.metadata))
               => call.ret = [metadata |-> call.options.metadata]

FalsyValues == {Undefined, Null, Str(""), Num(0), Bool(FALSE)}

(***************************************************************************)
(* C2, amended: getMetadata returns nothing when options is absent or its  *)
(* metadata is falsy (absent, null, the empty string, 0, false), and       *)
(* {metadata: X} for every other X, the empty object and the empty array   *)
(* included.                                                               *)
(***************************************************************************)
C2_WrapsEveryTruthy ==
    call.op \in {"debug", "info", "warn"} =>
        call.ret = IF call.options = Undefined \/ call.options.metadata \in FalsyValues
                   THEN Null
                   ELSE [metadata |-> call.options.metadata]

C2_Witness ==
    /\ call.op = "info"
    /\ call.options # Undefined
    /\ call.options.metadata = Obj(<<>>)
    /\ call.ret = [metadata |-> Obj(<<>>)]

(***************************************************************************)
(* C3: with debugMode false traceError returns nothing whatever options,   *)
(* error and metadata are, and the record error() hands over carries no    *)
(* stackTrace: none is printed.                                            *)
(***************************************************************************)
C3_NoTraceOutsideDebugMode ==
    (call.op = "error" /\ ~loggers[call.self].debugMode) =>
        /\ call.ret = Null
        /\ call.info.stackTrace = Undefined
        /\ \A k \in DOMAIN console : Find(console[k].line, "stackTrace", 1) = 0

C3_Witness ==
    /\ call.op = "error"
    /\ ~loggers[call.self].debugMode
    /\ call.options # Undefined
    /\ call.options.error # Undefined
    /\ call.options.metadata = Obj(<< <<"code", Num(5)>> >>)
    /\ console # <<>>

C4_ErrorSupplied == call.options # Undefined /\ Truthy(call.options.error)

C4_Common ==
    /\ DOMAIN call.ret = {"stackTrace", "metadata"}
    /\ ~C4_ErrorSupplied =>
           /\ call.ret.stackTrace = Str("Error\n    at " \o call.site)
           /\ Len(call.ret.stackTrace.s) > 0
    /\ C4_ErrorSupplied => call.ret.stackTrace = call.options.error.stack

(***************************************************************************)
(* C4, as stated: with debugMode true traceError returns a stackTrace and  *)
(* a metadata: the stack of a new error (not empty) when none was          *)
(* supplied, else the supplied error's; the supplied metadata, or an empty *)
(* object when none was supplied.                                          *)
(***************************************************************************)
C4_TraceInDebugMode ==
    (call.op = "error" /\ loggers[call.self].debugMode) =>
        /\ C4_Common
        /\ call.ret.metadata =
               IF call.options = Undefined \/ IsNullish(call.options.metadata)
               THEN Obj(<<>>)
               ELSE call.options.metadata

(***************************************************************************)
(* C4, amended: as stated, but the metadata is the supplied one when it is *)
(* truthy, and an empty object when none or a falsy one (the empty string, *)
(* 0, false) was supplied.                                                 *)
(***************************************************************************)
C4_TraceInDebugModeTruthy ==
    (call.op = "error" /\ loggers[call.self].debugMode) =>
        /\ C4_Common
        /\ call.ret.metadata =
               IF call.options = Undefined \/ call.options.metadata \in FalsyValues
               THEN Obj(<<>>)
               ELSE call.options.metadata

C4_Witness ==
    /\ call.op = "error"
    /\ loggers[call.self].debugMode
    /\ call.options = Undefined
    /\ call.ret = [stackTrace |-> Str("Error\n    at main"), metadata |-> Obj(<<>>)]
    /\ console # <<>>

\* A console line was printed: by the format run alone, or by a logging call.
Printed == call.op \in Levels \cup {"transform"} /\ ConsoleMode /\ console # <<>>

PrintedLine == console[1].line

C6_Covered(m) ==
    m.t \in {"undefined", "null", "string", "array", "object"}

C6_Expected(m) ==
    CASE m.t = "string" -> "\n  > [metadata] " \o m.s
      [] m.t = "array" /\ m.a # <<>> -> "\n  > [metadata] " \o JSONStringify(m)
      [] m.t = "object" /\ m.kv # <<>> -> "\n  > [metadata] " \o JSONStringify(m)
      [] OTHER -> ""

(***************************************************************************)
(* C6: the metadata suffix of a console line is empty for an absent        *)
(* metadata, an empty object and an empty array; "\n  > [metadata] " and   *)
(* the string for a string; "\n  > [metadata] " and the JSON text for an   *)
(* array with items and an object with keys.  Only the stack trace suffix, *)
(* if any, follows it.                                                     *)
(***************************************************************************)
C6_MetadataSuffix ==
    (Printed /\ C6_Covered(call.info.metadata)) =>
        LET suffixes == LineSuffixes(PrintedLine, call.now)
            expected == C6_Expected(call.info.metadata)
            rest == SubSeq(suffixes, Len(expected) + 1, Len(suffixes))
        IN /\ StartsWith(suffixes, expected)
           /\ rest = "" \/ StartsWith(rest, "\n  > [stackTrace] ")

C6_Witness ==
    /\ Printed
    /\ call.info.metadata = Obj(<< <<"code", Num(5)>> >>)
    /\ call.info.stackTrace = Undefined
    /\ LineSuffixes(PrintedLine, call.now) = "\n  > [metadata] {\"code\":5}"

(***************************************************************************)
(* C7, as stated: the level label of a console line is right-aligned in a  *)
(* field whose visible width is 15: the colour sequences do not count.     *)
(***************************************************************************)
C7_VisibleWidth15 ==
    Printed =>
        LET shown == VisibleText(LineLabel(PrintedLine, call.now))
        IN shown = Spaces(15 - Len(call.info.level)) \o call.info.level

(***************************************************************************)
(* C7, amended: the level label of a console line is right-aligned in a    *)
(* field of 15 characters that counts the 10 characters of the colour      *)
(* sequences: the padding is computed against the colorized level, so the  *)
(* visible width of the field is 5 for each of the four levels.            *)
(***************************************************************************)
C7_Width15WithColours ==
    Printed =>
        LET label == LineLabel(PrintedLine, call.now)
            shown == VisibleText(label)
        IN /\ Len(label) = 15
           /\ Len(label) - Len(shown) = 10
           /\ shown = Spaces(5 - Len(call.info.level)) \o call.info.level

C7_Witness ==
    /\ Printed
    /\ call.info.level = "info"
    /\ VisibleText(LineLabel(PrintedLine, call.now)) = " info"

ChildScope(i) == made[i].scope

ParentOf(i) == made[i].parent

\* The record logger p hands over for the arguments of the last call.
C9_RecordOf(p) ==
    MakeInfo(call.op, call.message,
             IF call.op = "error" THEN traceError(loggers[p], call.options, call.site).ret
             ELSE getMetadata(call.options))

(***************************************************************************)
(* C9: the record a child hands over has the level, the message, the       *)
(* metadata and the presence of a stackTrace of the record its parent      *)
(* hands over for the same call.                                           *)
(***************************************************************************)
C9_ChildLogsLikeParent ==
    (IsLogCall /\ call.self > 1) =>
        LET parent == C9_RecordOf(ParentOf(call.self))
        IN /\ call.info.level = parent.level
           /\ call.info.message = parent.message
           /\ call.info.metadata = parent.metadata
           /\ (call.info.stackTrace = Undefined) <=> (parent.stackTrace = Undefined)

(***************************************************************************)
(* C10: a logging call leaves the options object it was given as it was.   *)
(***************************************************************************)
C10_OptionsUntouched ==
    (IsLogCall /\ call.options # Undefined) => opts = call.options

====
